---- MODULE Spec2Model ----
(***************************************************************************)
(* Signaling relay of robotics_webrtc (src/src/server.js) and the call     *)
(* client that talks to it (src/unnamed/part_000, src/src/public/js/app.js)*)
(*                                                                         *)
(* Spec      the relay alone: every handler of server.js runs to           *)
(*           completion as one step, on an event sent by any connected     *)
(*           session with any arguments.                                   *)
(* SpecCall  pages running the client script, the relay, and the two       *)
(*           ordered streams of every socket between them.                 *)
(* SpecLong  SpecCall with MoreGestures more user gestures, none of them   *)
(*           a chat message.                                               *)
(* SpecSolo  one page, running either script, whose user joins, leaves and *)
(*           changes the camera.                                           *)
(* SpecApp   SpecCall with one page per session, each running app.js, the  *)
(*           script the relay serves under /public.                        *)
(* SpecPair  two pages, each running either script and submitting the      *)
(*           welcome form once, with every settled promise and every       *)
(*           message in flight eventually handled.                         *)
(***************************************************************************)
EXTENDS Naturals, Integers, Sequences, FiniteSets, TLC

\* ------------------------------------------------------------------ bounds
\* Sessions are the sockets that may be connected at the same time.  A socket
\* id is a random token that the relay never sends to anybody, so a room
\* name typed by a user is never the id of a socket.
NumSessions == 3
Sid(i) == "s" \o ToString(i)
Sessions == {Sid(i) : i \in 1 .. NumSessions}
RoomNames == {"r1", "r2"}
Nicks == {"Anonymous", "Bob"}
Texts == {"hi"}
Blobs == {"sdp"}

\* The pages of SpecCall, the rooms their users type, and the number of user
\* gestures and browser events (submit, leave, chat, candidate, close).
\* SpecLong gives the same pages MoreGestures more of them.
Callers == {"s1", "s2"}
CallRooms == {"r1"}
MaxGestures == 3
MoreGestures == 2

\* ------------------------------------------------------------------- state
VARIABLES
    rooms,      \* adapter.rooms : room key -> set of socket ids (server.js:32)
    sids,       \* adapter.sids  : socket id -> its room keys in the order joined
    nickname,   \* socket['nickname'] of every connected socket (server.js:55,92)
    last,       \* the event handled last, the state it found, what it emitted
    client,     \* per page: the globals of the script and what it is awaiting
    toServer,   \* per socket: events the page emitted, on their way to the relay
    inbox,      \* per socket: events the relay emitted, on their way to the page
    lastMsg,    \* the page's event whose handling `last` records
    recvLog,    \* per page: sender, room and number of the relayed events handled
    budget      \* gestures and browser events still to come

serverVars == <<rooms, sids, nickname, last>>
clientVars == <<client, toServer, inbox, lastMsg, recvLog, budget>>
vars == <<rooms, sids, nickname, last, client, toServer, inbox, lastMsg, recvLog,
          budget>>

\* ------------------------------------------------------- socket.io adapter
\* socket.join(room): the adapter adds the room to the socket's set and the
\* socket to the room, creating the room when it does not exist.
Has(seq, x) == \E i \in 1 .. Len(seq) : seq[i] = x

AddSid(sd, id, room) ==
    [k \in DOMAIN sd \cup {id} |->
        IF k = id
        THEN LET mine == IF id \in DOMAIN sd THEN sd[id] ELSE << >>
             IN  IF Has(mine, room) THEN mine ELSE Append(mine, room)
        ELSE sd[k]]

AddRoom(rs, id, room) ==
    [k \in DOMAIN rs \cup {room} |->
        IF k = room THEN (IF room \in DOMAIN rs THEN rs[room] ELSE {}) \cup {id}
                    ELSE rs[k]]

\* socket.leave(room): the adapter removes the socket from the room and
\* deletes a room that has become empty.
DelSid(sd, id, room) ==
    [k \in DOMAIN sd |->
        IF k = id THEN SelectSeq(sd[k], LAMBDA x : x # room) ELSE sd[k]]

DelRoomNoDelete(rs, id, room) ==
    [k \in DOMAIN rs |-> IF k = room THEN rs[k] \ {id} ELSE rs[k]]

DelRoom(rs, id, room) ==
    LET left == [k \in DOMAIN rs |-> IF k = room THEN rs[k] \ {id} ELSE rs[k]]
    IN  [k \in {j \in DOMAIN left : left[j] # {}} |-> left[k]]

\* The socket closes: between 'disconnecting' and 'disconnect' socket.io
\* takes the socket out of every room and forgets it.
DelAllSid(sd, id) == [k \in DOMAIN sd \ {id} |-> sd[k]]

DelAllRoom(rs, id) ==
    LET left == [k \in DOMAIN rs |-> rs[k] \ {id}]
    IN  [k \in {j \in DOMAIN left : left[j] # {}} |-> left[k]]

\* ------------------------------------------------------------ server.js
countRoomMembers(rs, roomName) ==
    IF roomName \in DOMAIN rs THEN Cardinality(rs[roomName]) ELSE 0

publicRooms(rs, sd) ==
    { [roomName |-> key, userCount |-> countRoomMembers(rs, key)] :
        key \in {k \in DOMAIN rs : k \notin DOMAIN sd} }

\* One emit call: the event, its argument and the sockets it is sent to.
Emit(ev, arg, to) == [ev |-> ev, arg |-> arg, to |-> to]

\* socket.to(room): every socket of the room but the sender; the sender
\* does not have to be in the room.
ToRoom(rs, id, room) ==
    IF room \in DOMAIN rs THEN rs[room] \ {id} ELSE {}

\* wsServer.sockets: every socket of the namespace.
AllSocketsIdleOnly(rs, sd) ==
    {id \in DOMAIN sd : \A r \in RoomNames : countRoomMembers(rs, r) = 0
                                             \/ id \notin rs[r]}

AllSockets(rs, sd) == DOMAIN sd

RoomChange(rs, sd) == Emit("room_change", publicRooms(rs, sd), AllSockets(rs, sd))

Ack(id) == Emit("ack", "", {id})

Handled(ev, id, room, arg, out) ==
    [ev |-> ev, from |-> id, room |-> room, arg |-> arg,
     rooms |-> rooms, sids |-> sids, nick |-> nickname, out |-> out]

\* ------------------------------------------------------- the client script
\* The repository holds two versions of the page's script: part_000 and
\* public/js/app.js, the file server.js serves under /public.  A page runs
\* one of them (script).
\*
\* The globals of one page (part_000:10-29, app.js:10-29).  welcome.hidden is
\* always the negation of room.hidden.  myPeerConnection and myDataChannel
\* hold the number of the RTCPeerConnection they belong to, 0 for
\* null/undefined.  local, remote and applied are the descriptions and the
\* candidates of the connection myPeerConnection names.  paths, offers and
\* answers tell what the handlers have done with that connection since
\* makeConnection created it: the data-channel paths taken ("welcome":
\* createDataChannel, "offer": the datachannel listener) and the offers and
\* answers emitted.  threw holds the handlers and calls that ended in an
\* error nobody caught, caught the rejections a .catch logged.  captures
\* counts the streams getUserMedia gave the page whose tracks nobody has
\* stopped, listed says that camerasSelect has got its options.
Unloaded ==
    [script |-> "part_000",
     open |-> FALSE, roomHidden |-> TRUE, roomName |-> "",
     myStream |-> "undefined", myFace |-> "null",
     captures |-> 0, listed |-> FALSE,
     myPeerConnection |-> 0, myDataChannel |-> 0,
     local |-> "none", remote |-> "none", applied |-> 0,
     paths |-> {}, offers |-> 0, answers |-> 0,
     made |-> 0, openConns |-> {}, tasks |-> {}, threw |-> {}, caught |-> {},
     left |-> FALSE, sent |-> 0]

Loaded == [Unloaded EXCEPT !.open = TRUE]

\* The page goes away.  The numbering of what its socket slot has emitted
\* goes on, so that numbers tell the order of emission across a reload.
Unload(cl) == [Unloaded EXCEPT !.sent = cl.sent + 1, !.script = cl.script]

\* An event on its way to the relay.  n numbers the events of one page in
\* the order it emitted them; redo marks a leave_room sent for a call
\* attempt that an earlier leave had already closed, and quiet says that the
\* handler that sent it left the globals of the page as they were.
Msg(ev, room, arg, cb, n, redo, quiet) ==
    [ev |-> ev, room |-> room, arg |-> arg, cb |-> cb, n |-> n,
     redo |-> redo, quiet |-> quiet]

NoMsg == Msg("none", "", "", "", 0, FALSE, TRUE)

\* ------------------------------------------------------------------- Init
\* The relay has started and no socket has connected.
InitRelay ==
    /\ rooms = << >>
    /\ sids = << >>
    /\ nickname = << >>
    /\ last = [ev |-> "none", from |-> "", room |-> "", arg |-> "",
               rooms |-> << >>, sids |-> << >>,
               nick |-> << >>, out |-> << >>]

\* The relay alone: there are no pages, the events come from anywhere.
Init ==
    /\ InitRelay
    /\ client = << >>
    /\ toServer = << >>
    /\ inbox = << >>
    /\ lastMsg = NoMsg
    /\ recvLog = << >>
    /\ budget = 0

\* The relay and the pages of Callers, none of them loaded yet; the pages
\* will run part_000.
InitCall ==
    /\ InitRelay
    /\ client = [c \in Callers |-> Unloaded]
    /\ toServer = [c \in Callers |-> << >>]
    /\ inbox = [c \in Callers |-> << >>]
    /\ lastMsg = NoMsg
    /\ recvLog = [c \in Callers |-> << >>]
    /\ budget = MaxGestures

\* The same, for runs of MaxGestures + MoreGestures gestures.
InitLong ==
    /\ InitRelay
    /\ client = [c \in Callers |-> Unloaded]
    /\ toServer = [c \in Callers |-> << >>]
    /\ inbox = [c \in Callers |-> << >>]
    /\ lastMsg = NoMsg
    /\ recvLog = [c \in Callers |-> << >>]
    /\ budget = MaxGestures + MoreGestures

\* The relay and a page for every session, all of them running app.js, the
\* script that server.js serves.
InitApp ==
    /\ InitRelay
    /\ client = [c \in Sessions |-> [Unloaded EXCEPT !.script = "app.js"]]
    /\ toServer = [c \in Sessions |-> << >>]
    /\ inbox = [c \in Sessions |-> << >>]
    /\ lastMsg = NoMsg
    /\ recvLog = [c \in Sessions |-> << >>]
    /\ budget = MaxGestures

\* The relay and the pages of Callers, each running either script.
InitPair ==
    /\ InitRelay
    /\ client \in [Callers -> {[Unloaded EXCEPT !.script = f] :
                                  f \in {"part_000", "app.js"}}]
    /\ toServer = [c \in Callers |-> << >>]
    /\ inbox = [c \in Callers |-> << >>]
    /\ lastMsg = NoMsg
    /\ recvLog = [c \in Callers |-> << >>]
    /\ budget = MaxGestures

\* The relay and the page of one user, running either script, for runs of
\* MaxGestures + MoreGestures gestures.
Soloist == {"s1"}

InitSolo ==
    /\ InitRelay
    /\ client \in [Soloist -> {[Unloaded EXCEPT !.script = f] :
                                  f \in {"part_000", "app.js"}}]
    /\ toServer = [c \in Soloist |-> << >>]
    /\ inbox = [c \in Soloist |-> << >>]
    /\ lastMsg = NoMsg
    /\ recvLog = [c \in Soloist |-> << >>]
    /\ budget = MaxGestures + MoreGestures

\* ---------------------------------------------------------------- actions
\* wsServer.on("connection"): the socket is already in its own room.
Connect(s) ==
    /\ s \notin DOMAIN sids
    /\ LET rs == AddRoom(rooms, s, s)
           sd == AddSid(sids, s, s)
       IN  /\ rooms' = rs
           /\ sids' = sd
           /\ nickname' = [k \in DOMAIN sd |->
                             IF k = s THEN "Anonymous" ELSE nickname[k]]
           /\ last' = Handled("connection", s, "", "", <<RoomChange(rs, sd)>>)

IsFullOffByOne(roomSize) == roomSize > 2

IsFull(roomSize) == roomSize >= 2

RoomFullWithAck(s) == <<Emit("room_full", "", {s}), Ack(s)>>

RoomFull(s) == <<Emit("room_full", "", {s})>>

WelcomeToAll(rs, s, roomName, nick) ==
    Emit("welcome", nick[s], IF roomName \in DOMAIN rs THEN rs[roomName] ELSE {})

Welcome(rs, s, roomName, nick) ==
    Emit("welcome", nick[s], ToRoom(rs, s, roomName))

JoinRoom(s, roomName) ==
    /\ s \in DOMAIN sids
    /\ IF IsFull(countRoomMembers(rooms, roomName))
       THEN /\ last' = Handled("join_room", s, roomName, "", RoomFull(s))
            /\ UNCHANGED <<rooms, sids, nickname>>
       ELSE LET rs == AddRoom(rooms, s, roomName)
                sd == AddSid(sids, s, roomName)
            IN  /\ rooms' = rs
                /\ sids' = sd
                /\ UNCHANGED nickname
                /\ last' = Handled("join_room", s, roomName, "",
                                   <<Ack(s), Welcome(rs, s, roomName, nickname),
                                     RoomChange(rs, sd)>>)

Bye(rs, s, roomName, nick) ==
    Emit("bye", nick[s], ToRoom(rs, s, roomName))

LeaveRoom(s, roomName) ==
    /\ s \in DOMAIN sids
    /\ LET rs == DelRoom(rooms, s, roomName)
           sd == DelSid(sids, s, roomName)
       IN  /\ rooms' = rs
           /\ sids' = sd
           /\ UNCHANGED nickname
           /\ last' = Handled("leave_room", s, roomName, "",
                              <<Bye(rooms, s, roomName, nickname),
                                RoomChange(rs, sd), Ack(s)>>)

\* socket.on('disconnecting'): one bye for every room of the socket, sent
\* while the socket is still in its rooms.
Disconnecting(rs, sd, s, nick) ==
    [i \in 1 .. Len(sd[s]) |-> Bye(rs, s, sd[s][i], nick)]

\* The socket closes: 'disconnecting', the adapter's clean-up, 'disconnect'.
Disconnect(s) ==
    /\ s \in DOMAIN sids
    /\ LET rs == DelAllRoom(rooms, s)
           sd == DelAllSid(sids, s)
       IN  /\ rooms' = rs
           /\ sids' = sd
           /\ nickname' = [k \in DOMAIN sd |-> nickname[k]]
           /\ last' = Handled("disconnect", s, "", "",
                              Disconnecting(rooms, sids, s, nickname)
                                \o <<RoomChange(rs, sd)>>)

\* `${socket.nickname}: ${msg}`
Rendered(nick, msg) == nick \o ": " \o msg

NewMessage(s, msg, room) ==
    /\ s \in DOMAIN sids
    /\ UNCHANGED <<rooms, sids, nickname>>
    /\ last' = Handled("new_message", s, room, msg,
                       <<Emit("new_message", Rendered(nickname[s], msg),
                              ToRoom(rooms, s, room)), Ack(s)>>)

SetNicknameIgnored(nick, s, n) == nick

SetNickname(nick, s, n) == [nick EXCEPT ![s] = n]

Nickname(s, n) ==
    /\ s \in DOMAIN sids
    /\ nickname' = SetNickname(nickname, s, n)
    /\ UNCHANGED <<rooms, sids>>
    /\ last' = Handled("nickname", s, "", n, << >>)

\* offer, answer and ice are forwarded as they come.
Forward(ev, s, blob, roomName) ==
    /\ s \in DOMAIN sids
    /\ UNCHANGED <<rooms, sids, nickname>>
    /\ last' = Handled(ev, s, roomName, blob,
                       <<Emit(ev, blob, ToRoom(rooms, s, roomName))>>)

Offer(s, offer, roomName) == Forward("offer", s, offer, roomName)

Answer(s, answer, roomName) == Forward("answer", s, answer, roomName)

Ice(s, ice, roomName) == Forward("ice", s, ice, roomName)

Idle == UNCHANGED clientVars

Next ==
    \/ \E s \in Sessions : Connect(s) /\ Idle
    \/ \E s \in Sessions, r \in RoomNames : JoinRoom(s, r) /\ Idle
    \/ \E s \in Sessions, r \in RoomNames : LeaveRoom(s, r) /\ Idle
    \/ \E s \in Sessions : Disconnect(s) /\ Idle
    \/ \E s \in Sessions, m \in Texts, r \in RoomNames :
          NewMessage(s, m, r) /\ Idle
    \/ \E s \in Sessions, n \in Nicks : Nickname(s, n) /\ Idle
    \/ \E s \in Sessions, b \in Blobs, r \in RoomNames : Offer(s, b, r) /\ Idle
    \/ \E s \in Sessions, b \in Blobs, r \in RoomNames : Answer(s, b, r) /\ Idle
    \/ \E s \in Sessions, b \in Blobs, r \in RoomNames : Ice(s, b, r) /\ Idle

Spec == Init /\ [][Next]_vars

\* ------------------------------------------- the client script, continued
\* What a handler of the page leaves behind: the page and the events it
\* emitted, in order.
Ran(cl, emits) == [cl |-> cl, emits |-> emits]

\* socket.emit on the page: the event gets the page's next number.
Sends(was, cl, ev, room, arg, cb, redo) ==
    Ran([cl EXCEPT !.sent = @ + 1],
        <<Msg(ev, room, arg, cb, cl.sent + 1, redo, was = cl)>>)

Throws(cl, handler) == Ran([cl EXCEPT !.threw = @ \cup {handler}], << >>)

\* A promise the page awaits or has left to settle by itself: the call, its
\* argument and the connection it was made on.
Pending(k, arg, pc) == [k |-> k, arg |-> arg, pc |-> pc]

Awaits(cl, task) == [cl EXCEPT !.tasks = @ \cup {task}]

Resumes(cl, task) == [cl EXCEPT !.tasks = @ \ {task}]

makeConnection(cl) ==
    [cl EXCEPT !.made = @ + 1,
               !.myPeerConnection = cl.made + 1,
               !.openConns = @ \cup {cl.made + 1},
               !.local = "none", !.remote = "none", !.applied = 0,
               !.paths = {}, !.offers = 0, !.answers = 0,
               !.left = FALSE]

\* close() also settles what the connection still had to do: a
\* setLocalDescription that nobody awaits ends with it.
cleanupWebRTC(cl) ==
    IF cl.myPeerConnection # 0
    THEN [cl EXCEPT !.myDataChannel = 0,
                    !.myStream = IF @ = "live" THEN "stopped" ELSE @,
                    !.captures = IF cl.myStream = "live" THEN @ - 1 ELSE @,
                    !.openConns = @ \ {cl.myPeerConnection},
                    !.tasks = {task \in @ :
                                 ~(/\ task.k = "setLocalDescription"
                                   /\ task.pc = cl.myPeerConnection)},
                    !.myPeerConnection = 0,
                    !.local = "none", !.remote = "none", !.applied = 0,
                    !.paths = {}, !.offers = 0, !.answers = 0,
                    !.myFace = "null"]
    ELSE [cl EXCEPT !.myFace = "null"]

handleLeaveRoom(cl) ==
    LET closed == [cleanupWebRTC(cl) EXCEPT !.left = TRUE]
    IN  Sends([cl EXCEPT !.left = TRUE], closed,
              "leave_room", closed.roomName, "", "showLobby", cl.left)

showRoom(cl) == [cl EXCEPT !.roomHidden = FALSE]

\* app.js ends with roomName = None, a name nobody defined: the lobby shows,
\* the assignment throws and roomName stays.
showLobby(cl) ==
    IF cl.script = "app.js"
    THEN [cl EXCEPT !.roomHidden = TRUE, !.threw = @ \cup {"showLobby"}]
    ELSE [cl EXCEPT !.roomHidden = TRUE, !.roomName = ""]

handleMessageSubmit(cl, value) ==
    Sends(cl, cl, "new_message", cl.roomName, value, "addMessage", FALSE)

\* handleWelcomeSubmit up to its first suspension: initCall awaits getMedia,
\* which awaits getUserMedia.
handleWelcomeSubmit(cl, value) == Awaits(cl, Pending("getUserMedia", value, 0))

\* The rest of handleWelcomeSubmit once getMedia has returned: makeConnection,
\* the join_room and roomName.  makeConnection of app.js reads
\* myStream.getTracks() after it has created the connection, which throws
\* while myStream is undefined; initCall and handleWelcomeSubmit end there.
joinAfterMedia(cl, value) ==
    IF cl.script = "app.js" /\ cl.myStream = "undefined"
    THEN Throws(makeConnection(cl), "handleWelcomeSubmit")
    ELSE LET made == makeConnection(cl)
             sent == Sends(cl, made, "join_room", value, "", "showRoom", FALSE)
         IN  Ran([sent.cl EXCEPT !.roomName = value], sent.emits)

\* getUserMedia resolves: the page has live tracks and shows them.  app.js
\* then awaits getCameras.
mediaGranted(cl, task) ==
    LET got == [Resumes(cl, task) EXCEPT !.myStream = "live",
                                         !.captures = @ + 1,
                                         !.myFace = "stream"]
    IN  IF cl.script = "app.js"
        THEN Ran(Awaits(got, Pending("getCameras", task.arg, 0)), << >>)
        ELSE joinAfterMedia(got, task.arg)

\* getUserMedia rejects.  part_000: an empty MediaStream, then getMedia
\* awaits getCameras (part_000:68-76).  app.js: the catch logs and getMedia
\* returns with myStream as it was (app.js:82-84).
mediaDenied(cl, task) ==
    IF cl.script = "app.js"
    THEN joinAfterMedia(Resumes(cl, task), task.arg)
    ELSE Ran(Awaits([Resumes(cl, task) EXCEPT !.myStream = "empty"],
                    Pending("getCameras", task.arg, 0)), << >>)

\* enumerateDevices resolves.  getCameras appends an option per camera after
\* it has read currentCamera.label: with a stream that has no video track
\* that read throws inside the try and no option is appended.
camerasListed(cl, task) ==
    joinAfterMedia([Resumes(cl, task) EXCEPT
                       !.myFace = "stream",
                       !.listed = @ \/ cl.myStream = "live"], task.arg)

\* handleCameraChange up to its suspension: getMedia(deviceId) awaits
\* getUserMedia.
handleCameraChange(cl) == Awaits(cl, Pending("handleCameraChange", "", 0))

\* getUserMedia of a camera change resolves: myStream is the new stream, the
\* tracks of the stream it replaces are not stopped.  The rest of
\* handleCameraChange hands the new video track to the sender of the
\* connection, if there is one.
cameraGranted(cl, task) ==
    Ran([Resumes(cl, task) EXCEPT !.myStream = "live",
                                  !.captures = @ + 1,
                                  !.myFace = "stream"], << >>)

\* It rejects: part_000 goes on with an empty MediaStream, app.js logs.
cameraDenied(cl, task) ==
    IF cl.script = "app.js"
    THEN Ran(Resumes(cl, task), << >>)
    ELSE Ran([Resumes(cl, task) EXCEPT !.myStream = "empty",
                                       !.myFace = "stream"], << >>)

\* socket.on("welcome") up to await createOffer.
onWelcome(cl) ==
    IF cl.myPeerConnection = 0 THEN Throws(cl, "welcome")
    ELSE Ran(Awaits([cl EXCEPT !.myDataChannel = cl.myPeerConnection,
                               !.paths = @ \cup {"welcome"}],
                    Pending("createOffer", "", cl.myPeerConnection)), << >>)

\* myPeerConnection.setLocalDescription(description): the call returns a
\* promise that the handlers do not await.
setLocalDescription(cl, kind) ==
    Awaits(cl, Pending("setLocalDescription", kind, cl.myPeerConnection))

offerCreatedUnsent(cl, task) ==
    LET back == Resumes(cl, task)
    IN  IF task.pc \notin cl.openConns \/ cl.myPeerConnection = 0
        THEN Throws(back, "welcome")
        ELSE Ran(setLocalDescription(back, "offer"), << >>)

\* createOffer settles.  It rejects on a connection that has been closed;
\* setLocalDescription is called on whatever myPeerConnection is by then and
\* the offer is emitted at once.
offerCreated(cl, task) ==
    LET back == Resumes(cl, task)
    IN  IF task.pc \notin cl.openConns \/ cl.myPeerConnection = 0
        THEN Throws(back, "welcome")
        ELSE Sends(cl, [setLocalDescription(back, "offer")
                           EXCEPT !.offers = @ + 1],
                   "offer", cl.roomName, "sdp", "", FALSE)

\* socket.on("offer") up to await createAnswer.  setRemoteDescription is not
\* awaited either, but the connection runs its operations in the order of
\* the calls, so createAnswer and every later addIceCandidate find the remote
\* description that was given here.
onOffer(cl) ==
    IF cl.myPeerConnection = 0 THEN Throws(cl, "offer")
    ELSE Ran(Awaits([cl EXCEPT !.remote = "offer",
                               !.paths = @ \cup {"offer"}],
                    Pending("createAnswer", "", cl.myPeerConnection)), << >>)

answerCreated(cl, task) ==
    LET back == Resumes(cl, task)
    IN  IF task.pc \notin cl.openConns \/ cl.myPeerConnection = 0
        THEN Throws(back, "offer")
        ELSE Sends(cl, [setLocalDescription(back, "answer")
                           EXCEPT !.answers = @ + 1],
                   "answer", cl.roomName, "sdp", "", FALSE)

\* The promise of setLocalDescription settles: the connection has the local
\* description and starts to gather candidates.
localDescriptionSet(cl, task) ==
    LET back == Resumes(cl, task)
    IN  IF task.pc = cl.myPeerConnection
        THEN Ran([back EXCEPT !.local = task.arg], << >>)
        ELSE Ran(back, << >>)

onAnswer(cl) ==
    IF cl.myPeerConnection = 0 THEN Throws(cl, "answer")
    ELSE Ran([cl EXCEPT !.remote = "answer"], << >>)

\* addIceCandidate rejects while the connection has no remote description.
\* part_000 adds a candidate of at least 8 fields and logs the rejection;
\* app.js adds whatever comes and catches nothing.
addIceCandidate(cl, ice) ==
    IF cl.remote = "none"
    THEN IF cl.script = "app.js"
         THEN [cl EXCEPT !.threw = @ \cup {"addIceCandidate"}]
         ELSE [cl EXCEPT !.caught = @ \cup {"addIceCandidate"}]
    ELSE IF ice = "candidate" THEN [cl EXCEPT !.applied = 1] ELSE cl

\* socket.on("ice").  part_000 returns when there is no connection and adds
\* nothing for a null or a short candidate; app.js has no such test.
onIce(cl, ice) ==
    IF cl.script = "app.js"
    THEN IF cl.myPeerConnection = 0 THEN Throws(cl, "ice")
         ELSE Ran(addIceCandidate(cl, ice), << >>)
    ELSE IF cl.myPeerConnection = 0 THEN Ran(cl, << >>)
         ELSE IF ice = "candidate" THEN Ran(addIceCandidate(cl, ice), << >>)
         ELSE Ran(cl, << >>)

\* handleIce.  part_000: a candidate of at least 8 fields is sent on; the
\* empty candidate string and the null that ends gathering are only logged.
\* app.js sends data.candidate as it is.
handleIce(cl, candidate) ==
    IF cl.script = "app.js" \/ candidate = "candidate"
    THEN Sends(cl, cl, "ice", cl.roomName, candidate, "", FALSE)
    ELSE Ran(cl, << >>)

\* bye and new_message only add a line to the chat list of the document.
onBye(cl) == Ran(cl, << >>)

\* room_full.  part_000: alert and window.location.reload(); the page is gone
\* and its socket closes.  app.js registers no listener for it.
onRoomFull(cl) ==
    IF cl.script = "app.js" THEN Ran(cl, << >>)
    ELSE Ran(Unload(cl),
             <<Msg("disconnect", "", "reload", "", cl.sent + 1, FALSE, TRUE)>>)

onAck(cl, cb) ==
    IF cb = "showRoom" THEN Ran(showRoom(cl), << >>)
    ELSE IF cb = "showLobby" THEN Ran(showLobby(cl), << >>)
    ELSE Ran(cl, << >>)

\* ------------------------------------------------------------ the streams
\* What the relay emitted reaches every addressed socket in the order of the
\* emit calls, behind what that socket was sent before.  The page's
\* room_change handler (part_000:294-305) only rewrites the room list of the
\* document, which is no part of this state, so room_change is not queued.
OnStream(e) == e.ev # "room_change"

RECURSIVE DeliverFirst(_, _, _, _)
DeliverFirst(ib, out, s, m) ==
    IF Len(out) = 0 THEN ib
    ELSE LET e == Head(out)
             got == [ev |-> e.ev, arg |-> e.arg, cb |-> m.cb,
                     from |-> s, room |-> m.room, n |-> m.n]
         IN  DeliverFirst([c \in DOMAIN ib |->
                              IF c \in e.to /\ OnStream(e)
                              THEN <<got>> \o ib[c] ELSE ib[c]],
                          Tail(out), s, m)

RECURSIVE Deliver(_, _, _, _)
Deliver(ib, out, s, m) ==
    IF Len(out) = 0 THEN ib
    ELSE LET e == Head(out)
             got == [ev |-> e.ev, arg |-> e.arg, cb |-> m.cb,
                     from |-> s, room |-> m.room, n |-> m.n]
         IN  Deliver([c \in DOMAIN ib |->
                         IF c \in e.to /\ OnStream(e)
                         THEN Append(ib[c], got) ELSE ib[c]],
                     Tail(out), s, m)

\* A step of the page c: its globals change and its emits join its stream.
PageStep(c, ran) ==
    /\ client' = [client EXCEPT ![c] = ran.cl]
    /\ toServer' = [toServer EXCEPT ![c] = @ \o ran.emits]

Gesture == budget > 0 /\ budget' = budget - 1

\* --------------------------------------------------------- SpecCall steps
Submitting(cl) == \E task \in cl.tasks : task.k \in {"getUserMedia", "getCameras"}

\* The page loads and io() connects.
Open(c) ==
    /\ ~client[c].open
    /\ toServer[c] = << >>
    /\ Connect(c)
    /\ client' = [client EXCEPT ![c] = [Loaded EXCEPT !.sent = client[c].sent,
                                                      !.script = client[c].script]]
    /\ inbox' = Deliver(inbox, last'.out, c, NoMsg)
    /\ lastMsg' = NoMsg
    /\ UNCHANGED <<toServer, recvLog, budget>>

\* The tab closes or the transport is lost.
Close(c) ==
    /\ client[c].open
    /\ Gesture
    /\ PageStep(c, Ran(Unload(client[c]),
                       <<Msg("disconnect", "", "close", "", client[c].sent + 1,
                             FALSE, FALSE)>>))
    /\ UNCHANGED <<serverVars, inbox, lastMsg, recvLog>>

\* The form is submitted while the lobby shows.  A submission made while an
\* earlier one still waits for the camera is left out.
WelcomeSubmit(c, value) ==
    /\ client[c].open
    /\ client[c].roomHidden
    /\ ~Submitting(client[c])
    /\ Gesture
    /\ PageStep(c, Ran(handleWelcomeSubmit(client[c], value), << >>))
    /\ UNCHANGED <<serverVars, inbox, lastMsg, recvLog>>

LeaveClick(c) ==
    /\ client[c].open
    /\ ~client[c].roomHidden
    /\ Gesture
    /\ PageStep(c, handleLeaveRoom(client[c]))
    /\ UNCHANGED <<serverVars, inbox, lastMsg, recvLog>>

MessageSubmit(c, value) ==
    /\ client[c].open
    /\ ~client[c].roomHidden
    /\ Gesture
    /\ PageStep(c, handleMessageSubmit(client[c], value))
    /\ UNCHANGED <<serverVars, inbox, lastMsg, recvLog>>

\* The user picks a camera in camerasSelect, which is outside the room view.
CameraChange(c) ==
    /\ client[c].open
    /\ client[c].listed
    /\ Gesture
    /\ PageStep(c, Ran(handleCameraChange(client[c]), << >>))
    /\ UNCHANGED <<serverVars, inbox, lastMsg, recvLog>>

\* The getUserMedia of a camera change settles.
CameraSettle(c) ==
    /\ client[c].open
    /\ \E task \in client[c].tasks :
          /\ task.k = "handleCameraChange"
          /\ \/ PageStep(c, cameraGranted(client[c], task))
             \/ PageStep(c, cameraDenied(client[c], task))
    /\ UNCHANGED <<serverVars, inbox, lastMsg, recvLog, budget>>

\* The connection gathers a candidate once it has a local description.
IceCandidate(c, candidate) ==
    /\ client[c].open
    /\ client[c].myPeerConnection # 0
    /\ client[c].local # "none"
    /\ Gesture
    /\ PageStep(c, handleIce(client[c], candidate))
    /\ UNCHANGED <<serverVars, inbox, lastMsg, recvLog>>

\* An awaited promise of the page settles.
Settle(c) ==
    /\ client[c].open
    /\ \E task \in client[c].tasks :
          \/ task.k = "getUserMedia" /\ PageStep(c, mediaGranted(client[c], task))
          \/ task.k = "getUserMedia" /\ PageStep(c, mediaDenied(client[c], task))
          \/ task.k = "getCameras" /\ PageStep(c, camerasListed(client[c], task))
          \/ task.k = "createOffer" /\ PageStep(c, offerCreated(client[c], task))
          \/ task.k = "createAnswer" /\ PageStep(c, answerCreated(client[c], task))
          \/ task.k = "setLocalDescription"
                /\ PageStep(c, localDescriptionSet(client[c], task))
    /\ UNCHANGED <<serverVars, inbox, lastMsg, recvLog, budget>>

Relayed == {"offer", "answer", "ice", "new_message"}

\* The page handles the next event of its socket.
Receive(c) ==
    /\ client[c].open
    /\ inbox[c] # << >>
    /\ LET e == Head(inbox[c])
           cl == client[c]
       IN  /\ \/ e.ev = "ack" /\ PageStep(c, onAck(cl, e.cb))
              \/ e.ev = "welcome" /\ PageStep(c, onWelcome(cl))
              \/ e.ev = "offer" /\ PageStep(c, onOffer(cl))
              \/ e.ev = "answer" /\ PageStep(c, onAnswer(cl))
              \/ e.ev = "ice" /\ PageStep(c, onIce(cl, e.arg))
              \/ e.ev \in {"bye", "new_message"}
                    /\ PageStep(c, onBye(cl))
              \/ e.ev = "room_full" /\ PageStep(c, onRoomFull(cl))
           /\ recvLog' = [recvLog EXCEPT ![c] =
                             IF e.ev \in Relayed
                             THEN Append(@, <<e.from, e.room, e.n, e.ev>>)
                             ELSE @]
    /\ inbox' = [inbox EXCEPT ![c] = Tail(@)]
    /\ UNCHANGED <<serverVars, lastMsg, budget>>

\* The relay handles the next event of socket s.
Serve(s) ==
    /\ toServer[s] # << >>
    /\ LET m == Head(toServer[s])
       IN  /\ \/ m.ev = "join_room" /\ JoinRoom(s, m.room)
              \/ m.ev = "leave_room" /\ LeaveRoom(s, m.room)
              \/ m.ev = "new_message" /\ NewMessage(s, m.arg, m.room)
              \/ m.ev = "offer" /\ Offer(s, m.arg, m.room)
              \/ m.ev = "answer" /\ Answer(s, m.arg, m.room)
              \/ m.ev = "ice" /\ Ice(s, m.arg, m.room)
              \/ m.ev = "disconnect" /\ Disconnect(s)
           /\ lastMsg' = m
           /\ inbox' = LET ib == Deliver(inbox, last'.out, s, m)
                       IN  IF m.ev = "disconnect"
                           THEN [ib EXCEPT ![s] = << >>] ELSE ib
    /\ toServer' = [toServer EXCEPT ![s] = Tail(@)]
    /\ UNCHANGED <<client, recvLog, budget>>

NextCall ==
    \/ \E c \in DOMAIN client : Open(c)
    \/ \E c \in DOMAIN client : Close(c)
    \/ \E c \in DOMAIN client, r \in CallRooms : WelcomeSubmit(c, r)
    \/ \E c \in DOMAIN client : LeaveClick(c)
    \/ \E c \in DOMAIN client, m \in Texts : MessageSubmit(c, m)
    \/ \E c \in DOMAIN client, k \in {"candidate", "short", "null"} :
          IceCandidate(c, k)
    \/ \E c \in DOMAIN client : Settle(c)
    \/ \E c \in DOMAIN client : Receive(c)
    \/ \E c \in DOMAIN client : Serve(c)

SpecCall == InitCall /\ [][NextCall]_vars

\* The longer runs are those in which nobody chats.
NextLong ==
    \/ \E c \in DOMAIN client : Open(c)
    \/ \E c \in DOMAIN client : Close(c)
    \/ \E c \in DOMAIN client, r \in CallRooms : WelcomeSubmit(c, r)
    \/ \E c \in DOMAIN client : LeaveClick(c)
    \/ \E c \in DOMAIN client, k \in {"candidate", "short", "null"} :
          IceCandidate(c, k)
    \/ \E c \in DOMAIN client : Settle(c)
    \/ \E c \in DOMAIN client : Receive(c)
    \/ \E c \in DOMAIN client : Serve(c)

SpecLong == InitLong /\ [][NextLong]_vars

SpecApp == InitApp /\ [][NextCall]_vars

\* Two users who load the page, submit the form once and stay: nobody
\* leaves, closes the tab or chats.  The event loop of a page runs the
\* handler of every event that has arrived and the continuation of every
\* promise that has settled, and the relay handles every event it has
\* received.
NextPair ==
    \/ \E c \in DOMAIN client : Open(c)
    \/ \E c \in DOMAIN client, r \in CallRooms :
          client[c].made = 0 /\ WelcomeSubmit(c, r)
    \/ \E c \in DOMAIN client, k \in {"candidate", "short", "null"} :
          IceCandidate(c, k)
    \/ \E c \in DOMAIN client : Settle(c)
    \/ \E c \in DOMAIN client : Receive(c)
    \/ \E c \in DOMAIN client : Serve(c)

\* One user alone in a room, who joins, leaves and changes the camera.
NextSolo ==
    \/ \E c \in DOMAIN client : Open(c)
    \/ \E c \in DOMAIN client : Close(c)
    \/ \E c \in DOMAIN client, r \in CallRooms : WelcomeSubmit(c, r)
    \/ \E c \in DOMAIN client : LeaveClick(c)
    \/ \E c \in DOMAIN client : CameraChange(c)
    \/ \E c \in DOMAIN client : CameraSettle(c)
    \/ \E c \in DOMAIN client : Settle(c)
    \/ \E c \in DOMAIN client : Receive(c)
    \/ \E c \in DOMAIN client : Serve(c)

SpecSolo == InitSolo /\ [][NextSolo]_vars

FairPair ==
    \A c \in Callers :
        /\ WF_vars(Settle(c))
        /\ WF_vars(Receive(c))
        /\ WF_vars(Serve(c))

SpecPair == InitPair /\ [][NextPair]_vars /\ FairPair

\* ------------------------------------------------- what the last handler did
MembersBefore(r) == IF r \in DOMAIN last.rooms THEN last.rooms[r] ELSE {}

Members(r) == IF r \in DOMAIN rooms THEN rooms[r] ELSE {}

\* s is in a room somebody named.
InRoom(rs, s) == \E r \in RoomNames : r \in DOMAIN rs /\ s \in rs[r]

Emits(ev) == {i \in 1 .. Len(last.out) : last.out[i].ev = ev}

\* How many times the last handler sent ev to socket m.
Received(m, ev) == Cardinality({i \in Emits(ev) : m \in last.out[i].to})

Admitted == last.ev = "join_room" /\ Cardinality(MembersBefore(last.room)) < 2

Rejected == last.ev = "join_room" /\ Cardinality(MembersBefore(last.room)) >= 2

RoomScoped == {"offer", "answer", "ice", "new_message", "bye"}

\* ------------------------------------------------------------------ claims
\* C1: in every reachable state every room has at most 2 members, and a
\* join_room that finds 2 members in the room admits nobody.
C1_RoomCapacity ==
    /\ \A k \in DOMAIN rooms : Cardinality(rooms[k]) <= 2
    /\ \A r \in RoomNames : countRoomMembers(rooms, r) <= 2
    /\ Rejected => Members(last.room) = MembersBefore(last.room)

C1_ThirdJoinRefused ==
    /\ last.ev = "join_room"
    /\ Cardinality(MembersBefore(last.room)) = 2
    /\ last.from \notin MembersBefore(last.room)
    /\ Cardinality(Members(last.room)) = 2

\* C2: a join_room for a room that has 2 members sends room_full to the
\* requester and nothing else: no acknowledgment, no welcome, no room_change,
\* and no room changes its members.
C2_FullRoomOnlyRoomFull ==
    Rejected =>
        /\ Len(last.out) = 1
        /\ last.out[1].ev = "room_full"
        /\ last.out[1].to = {last.from}
        /\ rooms = last.rooms
        /\ sids = last.sids

C2_RejectedWhileElsewhere ==
    /\ Rejected
    /\ InRoom(rooms, last.from)
    /\ last.from \notin Members(last.room)
    /\ Emits("room_full") # {}

\* C3: every offer, answer, ice, new_message or bye that the relay delivers
\* goes to a session that shares a room with the sender when it is delivered;
\* a session outside room X never gets a message delivered to X's members.
C3_RoomScopedDelivery ==
    \A i \in 1 .. Len(last.out) :
        last.out[i].ev \in RoomScoped =>
            \A m \in last.out[i].to :
                \E r \in RoomNames : {last.from, m} \subseteq MembersBefore(r)

\* C4: a room exists exactly while it has members: the first admitted join
\* creates it, the step in which its last member leaves or disconnects
\* deletes it, and no room list names a room with userCount 0.
C4_RoomExistsIffMembers ==
    /\ \A k \in DOMAIN rooms : rooms[k] # {}
    /\ \A r \in RoomNames :
          r \in DOMAIN rooms <=> \E s \in DOMAIN sids : Has(sids[s], r)
    /\ Admitted => last.room \in DOMAIN rooms
    /\ (last.ev = "leave_room" /\ MembersBefore(last.room) \subseteq {last.from})
          => last.room \notin DOMAIN rooms
    /\ last.ev = "disconnect" =>
          \A r \in RoomNames :
              MembersBefore(r) \subseteq {last.from} => r \notin DOMAIN rooms
    /\ \A e \in publicRooms(rooms, sids) : e.userCount > 0
    /\ \A i \in Emits("room_change") :
          /\ \A e \in last.out[i].arg : e.userCount > 0
          /\ {e.roomName : e \in last.out[i].arg} = RoomNames \cap DOMAIN rooms

C4_LastMemberLeft ==
    /\ last.ev = "leave_room"
    /\ MembersBefore(last.room) = {last.from}
    /\ last.room \notin DOMAIN rooms

\* C5: two messages (offer, answer, ice or new_message) that one session sent
\* to one room reach every other member that receives both in the order in
\* which they were sent.
C5_FifoPerSender ==
    \A c \in DOMAIN recvLog :
        \A i, j \in 1 .. Len(recvLog[c]) :
            (/\ i < j
             /\ recvLog[c][i][1] = recvLog[c][j][1]
             /\ recvLog[c][i][2] = recvLog[c][j][2])
                => recvLog[c][i][3] < recvLog[c][j][3]

C5_TwoFromOneSender ==
    \E c \in DOMAIN recvLog :
        \E i, j \in 1 .. Len(recvLog[c]) :
            /\ i < j
            /\ recvLog[c][i][1] = recvLog[c][j][1]
            /\ recvLog[c][i][2] = recvLog[c][j][2]
            /\ recvLog[c][i][3] < recvLog[c][j][3]

\* C7: a leave (cleanupWebRTC, then leave_room) performed again on a call
\* attempt that is already closed changes nothing on the page and on the
\* relay, raises no error and has no further bye delivered to anybody.
C7_SecondLeaveNoEffect ==
    (last.ev = "leave_room" /\ lastMsg.redo) =>
        /\ lastMsg.quiet
        /\ rooms = last.rooms
        /\ sids = last.sids
        /\ \A s \in Sessions : Received(s, "bye") = 0

\* C6: a nickname message changes the sender's nickname and nothing else and
\* delivers nothing; every welcome, bye and new_message relayed for a session
\* carries the nickname the session has when it is relayed, "Anonymous"
\* until the session sets one.
C6_NicknameOnlyRenames ==
    /\ last.ev = "nickname" =>
          /\ last.out = << >>
          /\ rooms = last.rooms
          /\ sids = last.sids
          /\ nickname = [last.nick EXCEPT ![last.from] = last.arg]
    /\ last.ev = "connection" =>
          /\ nickname[last.from] = "Anonymous"
          /\ \A s \in DOMAIN last.nick : nickname[s] = last.nick[s]
    /\ last.ev \in {"join_room", "leave_room", "new_message"} =>
          nickname = last.nick
    /\ \A i \in Emits("welcome") \cup Emits("bye") :
          last.out[i].arg = last.nick[last.from]
    /\ \A i \in Emits("new_message") :
          last.out[i].arg = Rendered(last.nick[last.from], last.arg)

C6_RelayedUnderNewName ==
    /\ last.ev = "new_message"
    /\ nickname[last.from] = "Bob"
    /\ \E i \in Emits("new_message") :
          /\ last.out[i].to # {}
          /\ last.out[i].arg = "Bob: hi"

\* C8 as claimed: every room_change goes to idle sessions only.
C8_RoomChangeToIdleOnly ==
    \A i \in Emits("room_change") :
        \A m \in last.out[i].to : ~InRoom(rooms, m)

\* C8, amended: every room_change broadcast (on connect, admitted join, leave
\* and disconnect) goes to every connected session, in a room or not.
C8_RoomChangeToEverySession ==
    /\ \A i \in Emits("room_change") : last.out[i].to = DOMAIN sids
    /\ (last.ev \in {"connection", "leave_room", "disconnect"} \/ Admitted)
          => Cardinality(Emits("room_change")) = 1
    /\ Rejected => Emits("room_change") = {}

C8_MemberGetsRoomChange ==
    /\ last.ev = "leave_room"
    /\ \E i \in Emits("room_change") :
          \E m \in last.out[i].to : m # last.from /\ InRoom(rooms, m)

\* C9: when a member of a room disconnects, every other member of the room
\* receives exactly one bye with the nickname of the session that goes, sent
\* while it is still a member, and afterwards the session is in no room.
C9_DisconnectOneBye ==
    last.ev = "disconnect" =>
        /\ \A r \in RoomNames :
              last.from \in MembersBefore(r) =>
                  \A m \in MembersBefore(r) \ {last.from} :
                      Received(m, "bye") = 1
        /\ \A i \in Emits("bye") : last.out[i].arg = last.nick[last.from]
        /\ ~InRoom(rooms, last.from)
        /\ last.from \notin DOMAIN sids

\* C10 as claimed: an admitted join sends welcome to the members the room
\* had, not to the joiner, and the joiner of an empty room receives only
\* its acknowledgment.
C10_WelcomeOnlyAck ==
    Admitted =>
        /\ Cardinality(Emits("welcome")) = 1
        /\ \A i \in Emits("welcome") :
              /\ last.out[i].to = MembersBefore(last.room) \ {last.from}
              /\ last.out[i].arg = last.nick[last.from]
        /\ MembersBefore(last.room) = {} =>
              \A i \in 1 .. Len(last.out) :
                  last.from \in last.out[i].to => last.out[i].ev = "ack"

\* C10, amended: an admitted join sends welcome with the joiner's nickname to
\* the members the room had and never to the joiner; the joiner receives its
\* acknowledgment and the room_change that goes to every session, and the
\* joiner of an empty room has welcome delivered to nobody.
C10_WelcomeToOccupants ==
    Admitted =>
        /\ Cardinality(Emits("welcome")) = 1
        /\ \A i \in Emits("welcome") :
              /\ last.out[i].to = MembersBefore(last.room) \ {last.from}
              /\ last.out[i].arg = last.nick[last.from]
        /\ Received(last.from, "ack") = 1
        /\ Received(last.from, "room_change") = 1
        /\ \A i \in 1 .. Len(last.out) :
              last.from \in last.out[i].to
                  => last.out[i].ev \in {"ack", "room_change"}
        /\ MembersBefore(last.room) = {} =>
              \A s \in Sessions : Received(s, "welcome") = 0

C10_OccupantWelcomed ==
    /\ Admitted
    /\ \E m \in Sessions :
          /\ m # last.from
          /\ MembersBefore(last.room) = {m}
          /\ Received(m, "welcome") = 1
          /\ Received(last.from, "welcome") = 0

\* ------------------------------------------------ what a step of a page did
\* The step is the page c running its handler of ev, the event at the head
\* of its stream.
Handles(c, ev) ==
    /\ inbox[c] # << >>
    /\ Head(inbox[c]).ev = ev
    /\ Receive(c)

\* What the step made the page c emit, NoMsg when it emitted nothing.
Emitted(c) ==
    IF Len(toServer'[c]) > Len(toServer[c])
    THEN toServer'[c][Len(toServer'[c])]
    ELSE NoMsg

\* The page has torn down a call attempt and made no new one.
TornDown(cl) == cl.open /\ cl.made > 0 /\ cl.myPeerConnection = 0

\* C11: a page that has torn down its call attempt drops an answer or an ice
\* that arrives late: the handler leaves every global of the page as it
\* was, applies nothing and raises no error.
C11_LateSignalDropped ==
    [][\A c \in DOMAIN client :
          (TornDown(client[c]) /\ (Handles(c, "answer") \/ Handles(c, "ice")))
              => client'[c] = client[c]]_vars

\* C12: a page that holds a connection, in whatever state of the
\* negotiation, and handles a bye tears the call down: the data channel and
\* the connection are closed and cleared, the local tracks are stopped and
\* leave_room is emitted.
C12_ByeTearsDown ==
    [][\A c \in DOMAIN client :
          (Handles(c, "bye") /\ client[c].myPeerConnection # 0) =>
              /\ client'[c].myPeerConnection = 0
              /\ client'[c].myDataChannel = 0
              /\ client[c].myPeerConnection \notin client'[c].openConns
              /\ client'[c].myStream # "live"
              /\ Emitted(c).ev = "leave_room"]_vars

\* The step leaves the page c with a new connection, an empty capture and a
\* join_room for room emitted.
JoinsWithoutMedia(c, room) ==
    /\ client'[c].myPeerConnection # 0
    /\ client'[c].myPeerConnection \notin client[c].openConns
    /\ client'[c].myStream = "empty"
    /\ Emitted(c).ev = "join_room"
    /\ Emitted(c).room = room
    /\ client'[c].roomName = room

\* C13: when getUserMedia fails for a submitted join the page does not
\* abort: it goes on with an empty capture, through the listing of the
\* cameras if it awaits one, creates the connection and emits join_room for
\* the room that was asked for.
C13_MediaFailureStillJoins ==
    [][\A c \in DOMAIN client : \A task \in client[c].tasks :
          /\ (task.k = "getUserMedia"
                /\ PageStep(c, mediaDenied(client[c], task))) =>
                \/ JoinsWithoutMedia(c, task.arg)
                \/ /\ client'[c].myStream = "empty"
                   /\ Pending("getCameras", task.arg, 0) \in client'[c].tasks
          /\ (task.k = "getCameras" /\ client[c].myStream = "empty"
                /\ PageStep(c, camerasListed(client[c], task))) =>
                JoinsWithoutMedia(c, task.arg)]_vars

\* C14: a page that handles room_full abandons the attempt: afterwards
\* roomName does not name the room that refused it, no connection of the page
\* is open, its capture is not live, nothing of the attempt is still awaited
\* and the handler emits no offer, answer or ice.
C14_RoomFullAbandons ==
    [][\A c \in DOMAIN client :
          Handles(c, "room_full") =>
              /\ client'[c].roomName # Head(inbox[c]).room
              /\ client'[c].myPeerConnection = 0
              /\ client'[c].openConns = {}
              /\ client'[c].myStream # "live"
              /\ client'[c].tasks = {}
              /\ Emitted(c).ev \notin {"offer", "answer", "ice"}]_vars

\* How many events ev of the sender from the page c has handled.
Heard(c, from, ev) ==
    Cardinality({i \in 1 .. Len(recvLog[c]) :
                    recvLog[c][i][1] = from /\ recvLog[c][i][4] = ev})

\* The join_room handled last admitted b to a room that a was in alone.
SecondIn(a, b) ==
    /\ a # b
    /\ last.ev = "join_room"
    /\ last.from = b
    /\ MembersBefore(last.room) = {a}

\* a has sent one offer that b has handled, b one answer that a has handled,
\* and both connections have their local and their remote description.
Negotiated(a, b) ==
    /\ client[a].offers = 1 /\ client[a].answers = 0
    /\ client[b].answers = 1 /\ client[b].offers = 0
    /\ Heard(b, a, "offer") = 1 /\ Heard(a, b, "answer") = 1
    /\ Heard(a, b, "offer") = 0 /\ Heard(b, a, "answer") = 0
    /\ client[a].local = "offer" /\ client[a].remote = "answer"
    /\ client[b].remote = "offer" /\ client[b].local = "answer"

\* C15: when b is admitted to the room that a is in and neither leaves or
\* disconnects (no page of SpecPair does), then with every handler, promise
\* and relayed event getting its turn, a
\* sends exactly one offer that b handles and b exactly one answer that a
\* handles, both connections end with a local and a remote description
\* while the pages emit nothing but join_room, offer, answer and ice, and
\* from the admission on b never sends an offer and a never an answer.
C15_OneOfferOneAnswer ==
    \A a, b \in Callers :
        /\ SecondIn(a, b) ~> Negotiated(a, b)
        /\ [](SecondIn(a, b) =>
                [](/\ client[b].offers = 0 /\ client[a].answers = 0
                   /\ client[a].offers <= 1 /\ client[b].answers <= 1))

C15_BothNegotiated ==
    \E a, b \in Callers :
        /\ a # b
        /\ Negotiated(a, b)
        /\ \E r \in CallRooms : Members(r) = {a, b}
        /\ client[a].script # client[b].script

\* C16: between makeConnection and cleanupWebRTC a page emits at most one
\* offer and at most one answer for its connection, whoever leaves and
\* joins its room in the meantime.
C16_OneOfferPerAttempt ==
    \A c \in DOMAIN client :
        client[c].offers <= 1 /\ client[c].answers <= 1

\* C17: on one connection a page takes one data-channel path: it never both
\* creates the channel (welcome) and registers for an inbound one (offer),
\* whatever peers join and leave its room.
C17_OneChannelPath ==
    \A c \in DOMAIN client :
        ~({"welcome", "offer"} \subseteq client[c].paths)

\* C18: every suspension point has completed before the step that depends
\* on it: a page emits its offer only once its connection has that offer
\* as local description, and emits its answer only once the connection has
\* the remote offer and that answer as local description.
C18_EmitAfterLocalSet ==
    [][\A c \in DOMAIN client :
          /\ Emitted(c).ev = "offer" => client'[c].local = "offer"
          /\ Emitted(c).ev = "answer" =>
                /\ client'[c].remote = "offer"
                /\ client'[c].local = "answer"]_vars

\* C19: an ice that reaches a page whose connection has no remote
\* description yet is queued or ignored: addIceCandidate is never called on
\* the connection in that state, so it never rejects, caught or not.
C19_NoCandidateBeforeRemote ==
    \A c \in DOMAIN client :
        "addIceCandidate" \notin client[c].caught \cup client[c].threw

\* C20: every candidate event of a page's connection, the null that ends
\* gathering included, makes the page emit one ice message that carries that
\* candidate, so that the relay has it to deliver to the other member.
C20_EveryCandidateForwarded ==
    [][\A c \in DOMAIN client, k \in {"candidate", "short", "null"} :
          IceCandidate(c, k) =>
              /\ Emitted(c).ev = "ice"
              /\ Emitted(c).arg = k]_vars

\* C21: a click on Leave attempts every release step and sends leave_room:
\* afterwards the page has no connection and no data channel, the
\* connection it had is closed, no track of myStream is live, myFace shows
\* nothing and leave_room is on its way.
C21_TeardownReleasesAll ==
    [][\A c \in DOMAIN client :
          LeaveClick(c) =>
              /\ client'[c].myPeerConnection = 0
              /\ client'[c].myDataChannel = 0
              /\ client[c].myPeerConnection \notin client'[c].openConns
              /\ client'[c].myStream # "live"
              /\ client'[c].myFace = "null"
              /\ Emitted(c).ev = "leave_room"]_vars

\* C22: when cleanupWebRTC closes the connection of a page, no stream that
\* getUserMedia gave the page is left with live tracks, and when
\* makeConnection creates a connection it is the only open one of the page.
C22_AttemptOwnsItsResources ==
    [][\A c \in DOMAIN client :
          /\ (client[c].myPeerConnection # 0 /\ client'[c].myPeerConnection = 0)
                => client'[c].captures = 0
          /\ client'[c].made > client[c].made
                => client'[c].openConns = {client'[c].myPeerConnection}]_vars

\* C23: at every moment every session is a member of at most one of the
\* rooms that users name.
C23_AtMostOneRoom ==
    \A s \in Sessions :
        Cardinality({r \in RoomNames : s \in Members(r)}) <= 1

\* C24: a page that handles a welcome or an offer has a connection, or it
\* ignores the event: the handler changes nothing on the page and does not
\* end in an error.
C24_HandlerHasConnection ==
    [][\A c \in DOMAIN client :
          (Handles(c, "welcome") \/ Handles(c, "offer")) =>
              \/ client[c].myPeerConnection # 0
              \/ /\ client'[c] = client[c]
                 /\ Head(inbox[c]).ev \notin client[c].threw]_vars

====
